---- MODULE Spec2Model ----
(***************************************************************************)
(* Model of the Moving Average Distance strategy (src/solution.py): the    *)
(* algorithm object's fields, the four handlers the host engine drives     *)
(* (Selection, CoarseSelectionFunction, FineSelectionFunction, OnData) and *)
(* the SymbolData rolling price window.  Of the host, the model keeps what *)
(* the handlers depend on: the arguments it passes, the order of its       *)
(* calls and its book of target weights.                                   *)
(*                                                                         *)
(* Prices are non-negative integers and averages and ratios are exact      *)
(* rationals (numerator/denominator pairs); numpy's float division by zero *)
(* is modelled by the values NaN and Inf it produces.                      *)
(***************************************************************************)
EXTENDS Integers, Sequences, FiniteSets, TLC

VARIABLES
    selection_flag,  \* self.selection_flag
    data,            \* self.data: dict symbol -> SymbolData
    long,            \* self.long: list of symbols
    short,           \* self.short: list of symbols
    coarse_input,    \* the argument of the CoarseSelectionFunction call that
                     \* the host has set up and the handler has not yet run
    coarse_return,   \* what CoarseSelectionFunction returned; a returned
                     \* list is held until the host passes it to the fine stage
    fine_input,      \* the argument of the FineSelectionFunction call that
                     \* the host has set up and the handler has not yet run
    mad,             \* the MAD dict built by the last handler, as the list
                     \* of its items (empty unless it was the fine stage)
    orders,          \* Liquidate/SetHoldings calls made by the last handler
    portfolio,       \* the host's target weight of every symbol held
    last,            \* history: the handler the host called last
    error,           \* "none" or the exception that stopped the algorithm
    days,            \* number of CoarseSelectionFunction calls so far
    added,           \* history: every price passed to update, per symbol
    rebalances,      \* history: rebalances since the last Selection trigger
    fine_ran         \* history: FineSelectionFunction has run since the
                     \* Selection trigger that set the flag now standing

vars == <<selection_flag, data, long, short, coarse_input, coarse_return,
          fine_input, mad, orders, portfolio, last, error, days, added,
          rebalances, fine_ran>>

----------------------------------------------------------------------------
(* Bounds and input sets                                                   *)

MaxDays == 2

Symbols == {"A", "B"}

\* The order in which the host lists the symbols of a coarse universe.
SymbolOrder == <<"A", "B">>

AdjustedPrices == {150}

ExchangeIds == {"NYS", "NAS", "ASE", "BATS"}

----------------------------------------------------------------------------
(* Program constants                                                       *)

period == 200

coarse_count == 500

ShortWindow == 21

LongThresholdTenths == 12

ShortThresholdTenths == 8

----------------------------------------------------------------------------
(* Helpers                                                                 *)

Min(a, b) == IF a < b THEN a ELSE b

Range(seq) == {seq[i] : i \in 1..Len(seq)}

Reverse(seq) == [i \in 1..Len(seq) |-> seq[Len(seq) + 1 - i]]

Repeat(x, n) == [i \in 1..n |-> x]

\* seq[lo] + ... + seq[hi], by halves to keep the evaluation shallow.
RECURSIVE SumRange(_, _, _)
SumRange(seq, lo, hi) ==
    IF lo > hi THEN 0
    ELSE IF lo = hi THEN seq[lo]
    ELSE IF hi - lo = 7
    THEN seq[lo] + seq[lo + 1] + seq[lo + 2] + seq[lo + 3]
            + seq[lo + 4] + seq[lo + 5] + seq[lo + 6] + seq[hi]
    ELSE IF hi - lo > 7
    THEN SumRange(seq, lo, lo + 7) + SumRange(seq, lo + 8, hi)
    ELSE seq[lo] + SumRange(seq, lo + 1, hi)

Sum(seq) == SumRange(seq, 1, Len(seq))

RECURSIVE SelectSeqOf(_, _)
\* The subsequence of seq whose elements are in set S (a list comprehension).
SelectSeqOf(seq, S) ==
    IF seq = <<>> THEN <<>>
    ELSE IF Head(seq) \in S THEN <<Head(seq)>> \o SelectSeqOf(Tail(seq), S)
         ELSE SelectSeqOf(Tail(seq), S)

----------------------------------------------------------------------------
(* RollingWindow[float](period): the host framework's fixed-size window.   *)
(* Items are held newest first; Samples counts every Add.                  *)

RollingWindow(size) == [Size |-> size, Samples |-> 0, Items |-> <<>>]

\* RollingWindow.Add: the new item goes to the front; once Size items are
\* held the oldest (last) one is dropped.
Add(w, x) ==
    [Size |-> w.Size,
     Samples |-> w.Samples + 1,
     Items |-> IF Len(w.Items) >= w.Size
               THEN <<x>> \o SubSeq(w.Items, 1, w.Size - 1)
               ELSE <<x>> \o w.Items]

\* RollingWindow.IsReady
IsReady(w) == w.Samples >= w.Size

\* Enumerating a RollingWindow yields index 0 (the newest item) first.
Enumerate(w) == w.Items

----------------------------------------------------------------------------
(* class SymbolData                                                        *)

\* Mutant: the window is one slot too large.
SymbolData_oversized(symbol, size) ==
    [Symbol |-> symbol, Prices |-> RollingWindow(size + 1)]

SymbolData(symbol, size) == [Symbol |-> symbol, Prices |-> RollingWindow(size)]

update(sd, price) == [sd EXCEPT !.Prices = Add(sd.Prices, price)]

is_ready(sd) == IsReady(sd.Prices)

\* Mutant: the prices are returned oldest first.
return_prices_oldest_first(sd) ==
    LET xs == Enumerate(sd.Prices)
    IN [i \in 1..Len(xs) |-> xs[Len(xs) + 1 - i]]

return_prices(sd) == Enumerate(sd.Prices)

----------------------------------------------------------------------------
(* Arithmetic of FineSelectionFunction: np.average and the float division  *)

Num(n, d) == [kind |-> "num", num |-> n, den |-> d]

NaN == [kind |-> "nan", num |-> 0, den |-> 1]

Inf == [kind |-> "inf", num |-> 1, den |-> 1]

\* np.average(xs): the mean, NaN for an empty list.
Average(xs) == IF Len(xs) = 0 THEN NaN ELSE Num(Sum(xs), Len(xs))

\* Mutant: prices[-n:], the oldest n prices of the window.
Slice_oldest(xs, n) == SubSeq(xs, Len(xs) - Min(n, Len(xs)) + 1, Len(xs))

\* prices[:n]
Slice(xs, n) == SubSeq(xs, 1, Min(n, Len(xs)))

\* a / b on numpy floats: x/0 is Inf for x > 0 and NaN for x = 0; no
\* exception is raised.  Prices are non-negative, so b.num >= 0.
Divide(a, b) ==
    IF a.kind = "nan" \/ b.kind = "nan" THEN NaN
    ELSE IF b.num = 0 THEN (IF a.num = 0 THEN NaN ELSE Inf)
    ELSE Num(a.num * b.den, a.den * b.num)

\* x >= tenths/10 and x <= tenths/10; every comparison with NaN is false.
AtLeast(x, tenths) ==
    \/ x.kind = "inf"
    \/ x.kind = "num" /\ x.num * 10 >= tenths * x.den

AtMost(x, tenths) == x.kind = "num" /\ x.num * 10 <= tenths * x.den

\* MAD[symbol] = ma21 / ma200
MAD(prices) ==
    LET ma21 == Average(Slice(prices, ShortWindow))
        ma200 == Average(prices)
    IN Divide(ma21, ma200)

----------------------------------------------------------------------------
(* Host inputs                                                             *)

\* Price histories the host can return for History(symbol, 200, Daily),
\* oldest close first; it holds at most 200 closes and may hold fewer.
Histories ==
    { <<>>,
      Repeat(100, period - 1),
      Repeat(100, 179) \o Repeat(120, 21),
      Repeat(100, 179) \o Repeat(130, 21),
      Repeat(100, 179) \o Repeat(60, 21),
      Repeat(437, 179) \o Repeat(537, 21),
      Repeat(229, 179) \o Repeat(179, 21),
      Repeat(0, period) }

\* The fields of a coarse record that the universe filter reads: one
\* combination passes the filter, the others fail one conjunct each.
Listings ==
    { [HasFundamentalData |-> TRUE,  Market |-> "usa",  Price |-> 6],
      [HasFundamentalData |-> FALSE, Market |-> "usa",  Price |-> 6],
      [HasFundamentalData |-> TRUE,  Market |-> "fxcm", Price |-> 6],
      [HasFundamentalData |-> TRUE,  Market |-> "usa",  Price |-> 5] }

DollarVolumes == {1000, 2000}

\* What the coarse stage reads of one record. A record that fails the
\* filter carries the larger dollar volume (it would come first if kept).
CoarseData ==
    {x \in [AdjustedPrice : AdjustedPrices, Listing : Listings,
            DollarVolume : DollarVolumes] :
        \/ x.Listing.HasFundamentalData /\ x.Listing.Market = "usa"
              /\ x.Listing.Price > 5
        \/ \A v \in DollarVolumes : x.DollarVolume >= v}

\* The coarse universe of one day: a record per present symbol, in the
\* host's order.
CoarseList(present, q) ==
    LET syms == SelectSeqOf(SymbolOrder, present)
    IN [i \in 1..Len(syms) |->
          [Symbol |-> syms[i],
           AdjustedPrice |-> q[syms[i]].AdjustedPrice,
           HasFundamentalData |-> q[syms[i]].Listing.HasFundamentalData,
           Market |-> q[syms[i]].Listing.Market,
           Price |-> q[syms[i]].Listing.Price,
           DollarVolume |-> q[syms[i]].DollarVolume]]

\* The fine universe: a record for each symbol the coarse stage returned
\* and for which the host has fine data (ex[s] # "none"), in that order.
FineList(symbols, ex) ==
    LET syms == SelectSeqOf(symbols, {s \in DOMAIN ex : ex[s] # "none"})
    IN [i \in 1..Len(syms) |-> [Symbol |-> syms[i], ExchangeId |-> ex[syms[i]]]]

\* self.Securities[symbol]: Price and IsTradable at the time of OnData.
SecurityStates == [Price : {0, 10}, IsTradable : BOOLEAN]

----------------------------------------------------------------------------
(* CoarseSelectionFunction                                                 *)

\* Mutant: the window is fed the raw price, update(stock.Price).
UpdateWindows_raw(d, coarse) ==
    [s \in DOMAIN d |->
        IF \E i \in 1..Len(coarse) : coarse[i].Symbol = s
        THEN update(d[s], coarse[CHOOSE i \in 1..Len(coarse) :
                                    coarse[i].Symbol = s].Price)
        ELSE d[s]]

\* for stock in coarse: if symbol in self.data: update(stock.AdjustedPrice)
\* -- the body of the loop for one record of the coarse universe.
UpdateWindow(d, stock) ==
    IF stock.Symbol \in DOMAIN d
    THEN [d EXCEPT ![stock.Symbol] = update(d[stock.Symbol], stock.AdjustedPrice)]
    ELSE d

\* The update loop over coarse[lo..hi], in order (by halves; the test on
\* the first half makes TLC finish it before the second half starts).
RECURSIVE UpdateWindowsIn(_, _, _, _)
UpdateWindowsIn(d, coarse, lo, hi) ==
    IF lo > hi THEN d
    ELSE IF lo = hi THEN UpdateWindow(d, coarse[lo])
    ELSE LET mid == (lo + hi) \div 2
             first == UpdateWindowsIn(d, coarse, lo, mid)
         IN IF DOMAIN first = DOMAIN d
            THEN UpdateWindowsIn(first, coarse, mid + 1, hi)
            ELSE first

UpdateWindows(d, coarse) == UpdateWindowsIn(d, coarse, 1, Len(coarse))

\* x.HasFundamentalData and x.Market == 'usa' and x.Price > 5
PassesFilter(x) == x.HasFundamentalData /\ x.Market = "usa" /\ x.Price > 5

\* The place of xs[i] in the descending order of dollar volume: behind every
\* element with a larger dollar volume and, the sort being stable, behind
\* every earlier element with the same one.
Rank(xs, i) ==
    1 + Cardinality({j \in 1..Len(xs) :
                       \/ xs[j].DollarVolume > xs[i].DollarVolume
                       \/ xs[j].DollarVolume = xs[i].DollarVolume /\ j < i})

\* xs rearranged so that the element of rank p stands at place p.
Arrange(xs, rank) ==
    <<>> \o [p \in 1..Len(xs) |-> xs[CHOOSE i \in 1..Len(xs) : rank[i] = p]]

SortDescending(xs) == Arrange(xs, <<>> \o [i \in 1..Len(xs) |-> Rank(xs, i)])

\* sorted([x for x in coarse if ...], key=DollarVolume, reverse=True)
sorted_by_dollar_volume(coarse) == SortDescending(SelectSeq(coarse, PassesFilter))

SymbolsOf(xs) == <<>> \o [i \in 1..Len(xs) |-> xs[i].Symbol]

\* selected = [x.Symbol for x in sorted_by_dollar_volume]
selected(coarse) == SymbolsOf(sorted_by_dollar_volume(coarse))

\* for time, close in closes.iteritems(): update(close) -- oldest first
\* (closes[lo..hi] in order, by halves; the test on the first half makes
\* TLC finish it before the second half starts, which keeps its stack shallow)
RECURSIVE UpdateEach(_, _, _, _)
UpdateEach(sd, closes, lo, hi) ==
    IF lo > hi THEN sd
    ELSE IF lo = hi THEN update(sd, closes[lo])
    ELSE LET mid == (lo + hi) \div 2
             first == UpdateEach(sd, closes, lo, mid)
         IN IF first.Prices.Samples > 0
            THEN UpdateEach(first, closes, mid + 1, hi)
            ELSE first

Put(d, key, value) ==
    [k \in DOMAIN d \cup {key} |-> IF k = key THEN value ELSE d[k]]

\* The body of the warm-up loop for one new symbol, tabulated over the
\* histories the host can return.
Warmed ==
    [symbol \in Symbols |->
        [closes \in Histories |->
            LET fresh == SymbolData(symbol, period)
            IN IF closes = <<>> THEN fresh
               ELSE UpdateEach(fresh, closes, 1, Len(closes))]]

\* Mutant: the warm-up loop does not skip a symbol that is already tracked,
\* it gives it a new SymbolData.
Warmup_again(d, sel, history) ==
    [s \in DOMAIN d \cup Range(sel) |->
        IF s \notin Range(sel) THEN d[s]
        ELSE IF s \in DOMAIN d THEN SymbolData(s, period)
        ELSE Warmed[s][history[s]]]

\* The body of the warm-up loop for one selected symbol: a symbol not yet
\* in self.data gets a new SymbolData, filled from its history unless the
\* history is empty.
WarmupSymbol(d, symbol, history) ==
    IF symbol \in DOMAIN d THEN d
    ELSE Put(d, symbol, Warmed[symbol][history[symbol]])

\* The warm-up loop over sel[lo..hi], in order (by halves, as above).
RECURSIVE WarmupIn(_, _, _, _, _)
WarmupIn(d, sel, history, lo, hi) ==
    IF lo > hi THEN d
    ELSE IF lo = hi THEN WarmupSymbol(d, sel[lo], history)
    ELSE LET mid == (lo + hi) \div 2
             first == WarmupIn(d, sel, history, lo, mid)
         IN IF DOMAIN d \subseteq DOMAIN first
            THEN WarmupIn(first, sel, history, mid + 1, hi)
            ELSE first

Warmup(d, sel, history) == WarmupIn(d, sel, history, 1, Len(sel))

\* Mutant: the is_ready() filter is missing.
CoarseResult_unfiltered(d, sel) == SubSeq(sel, 1, Min(coarse_count, Len(sel)))

\* Mutant: the list is cut to coarse_count before the is_ready() filter.
CoarseResult_cut_first(d, sel) ==
    SelectSeq(SubSeq(sel, 1, Min(coarse_count, Len(sel))),
              LAMBDA x : is_ready(d[x]))

\* return [x for x in selected if self.data[x].is_ready()][:self.coarse_count]
CoarseResult(d, sel) ==
    LET ready == SelectSeq(sel, LAMBDA x : is_ready(d[x]))
    IN SubSeq(ready, 1, Min(coarse_count, Len(ready)))

\* Universe.Unchanged, a returned list, and no return value outstanding.
Unchanged == [kind |-> "unchanged", symbols |-> <<>>]

Returned(symbols) == [kind |-> "list", symbols |-> symbols]

NoReturn == [kind |-> "none", symbols |-> <<>>]

NoCall == [called |-> FALSE, arg |-> <<>>]

Call(arg) == [called |-> TRUE, arg |-> arg]

\* The host runs a handler to its end before the next event, and calls the
\* fine stage right after a coarse call that returned a list; after
\* Universe.Unchanged it does not call it.
HostIdle == coarse_return.kind # "list" /\ ~coarse_input.called

\* The host builds the day's coarse universe and calls
\* CoarseSelectionFunction with it.
CoarseUniverse ==
    /\ error = "none"
    /\ HostIdle
    /\ days < MaxDays
    /\ \E present \in SUBSET Symbols : \E q \in [present -> CoarseData] :
         coarse_input' = Call(CoarseList(present, q))
    /\ UNCHANGED <<selection_flag, data, long, short, coarse_return,
                   fine_input, mad, orders, portfolio, last, error, days,
                   added, rebalances, fine_ran>>

\* The prices passed to update by one coarse call, appended per symbol.
AddedAfter(coarse, history, d2) ==
    [s \in DOMAIN d2 |->
        IF s \in DOMAIN data
        THEN (IF \E i \in 1..Len(coarse) : coarse[i].Symbol = s
              THEN LET i == CHOOSE i \in 1..Len(coarse) : coarse[i].Symbol = s
                   IN Append(added[s], coarse[i].AdjustedPrice)
              ELSE added[s])
        ELSE history[s]]

CoarseSelectionFunction ==
    /\ error = "none"
    /\ coarse_input.called
    /\ LET coarse == coarse_input.arg
           d1 == UpdateWindows(data, coarse)
       IN IF ~selection_flag
          THEN /\ data' = d1
               /\ added' = AddedAfter(coarse, <<>>, d1)
               /\ coarse_return' = Unchanged
          ELSE LET sel == selected(coarse)
                   fresh == Range(sel) \ DOMAIN data
               IN \E history \in [fresh -> Histories] :
                    LET d2 == Warmup(d1, sel, history)
                    IN /\ data' = d2
                       /\ added' = AddedAfter(coarse, history, d2)
                       /\ coarse_return' = Returned(CoarseResult(d2, sel))
    /\ coarse_input' = NoCall
    /\ days' = days + 1
    /\ mad' = <<>>
    /\ orders' = <<>>
    /\ last' = "CoarseSelectionFunction"
    /\ UNCHANGED <<selection_flag, long, short, fine_input, portfolio, error,
                   rebalances, fine_ran>>

----------------------------------------------------------------------------
(* FineSelectionFunction                                                   *)

\* ExchangeId == "NYS" or ExchangeId == "NAS" or ExchangeId == "ASE"
OnListedExchange(x) ==
    x.ExchangeId = "NYS" \/ x.ExchangeId = "NAS" \/ x.ExchangeId = "ASE"

\* Mutant: a symbol whose 200 prices sum to zero is skipped before the
\* division.
RECURSIVE MADItems_guarded(_, _)
MADItems_guarded(d, fine) ==
    IF fine = <<>> THEN <<>>
    ELSE LET symbol == Head(fine).Symbol
             prices == return_prices(d[symbol])
         IN (IF Sum(prices) = 0 THEN <<>>
             ELSE <<[symbol |-> symbol, mad |-> MAD(prices)]>>)
                \o MADItems_guarded(d, Tail(fine))

\* for stock in fine: MAD[symbol] = ma21 / ma200 -- the dict as the list of
\* its items, in insertion order.
RECURSIVE MADItems(_, _)
MADItems(d, fine) ==
    IF fine = <<>> THEN <<>>
    ELSE LET symbol == Head(fine).Symbol
             prices == return_prices(d[symbol])
         IN <<[symbol |-> symbol, mad |-> MAD(prices)]>>
                \o MADItems(d, Tail(fine))

Keys(items) == [i \in 1..Len(items) |-> items[i].symbol]

\* self.long = [x[0] for x in MAD.items() if x[1] >= 1.2]
LongOf(items) ==
    Keys(SelectSeq(items, LAMBDA x : AtLeast(x.mad, LongThresholdTenths)))

\* Mutant: the comparison of the long line was copied, x[1] >= 0.8.
ShortOf_copied(items) ==
    Keys(SelectSeq(items, LAMBDA x : AtLeast(x.mad, ShortThresholdTenths)))

\* self.short = [x[0] for x in MAD.items() if x[1] <= 0.8]
ShortOf(items) ==
    Keys(SelectSeq(items, LAMBDA x : AtMost(x.mad, ShortThresholdTenths)))

\* The host builds the fine universe from the list the coarse stage returned
\* and calls FineSelectionFunction with it.
FineUniverse ==
    /\ error = "none"
    /\ coarse_return.kind = "list"
    /\ ~fine_input.called
    /\ \E ex \in [Range(coarse_return.symbols) -> ExchangeIds \cup {"none"}] :
         fine_input' = Call(FineList(coarse_return.symbols, ex))
    /\ UNCHANGED <<selection_flag, data, long, short, coarse_input,
                   coarse_return, mad, orders, portfolio, last, error, days,
                   added, rebalances, fine_ran>>

FineSelectionFunction ==
    /\ error = "none"
    /\ fine_input.called
    /\ LET fine == SelectSeq(fine_input.arg, OnListedExchange)
       IN IF \E i \in 1..Len(fine) : fine[i].Symbol \notin DOMAIN data
          THEN \* self.data[symbol] raises before long and short are set
               /\ error' = "KeyError"
               /\ mad' = <<>>
               /\ UNCHANGED <<long, short>>
          ELSE \E items \in {MADItems(data, fine)} :
                  /\ mad' = items
                  /\ long' = LongOf(items)
                  /\ short' = ShortOf(items)
                  /\ UNCHANGED error
    /\ fine_input' = NoCall
    /\ coarse_return' = NoReturn
    /\ orders' = <<>>
    /\ last' = "FineSelectionFunction"
    /\ fine_ran' = TRUE
    /\ UNCHANGED <<selection_flag, data, coarse_input, portfolio, days, added,
                   rebalances>>

----------------------------------------------------------------------------
(* OnData                                                                  *)

\* Mutant: one count for both sides, len(self.long) + len(self.short).
count_long_total(l, s) == Len(l) + Len(s)

\* Mutant: count_long = len(self.short).
count_long_swapped(l, s) == Len(s)

count_long(l, s) == Len(l)

count_short(l, s) == Len(s)

\* 1/count and -1/count: Python raises ZeroDivisionError for count = 0.
Quotient(n, count) ==
    IF count = 0 THEN [kind |-> "ZeroDivisionError", num |-> 0, den |-> 1]
    ELSE Num(n, count)

\* Securities[symbol].Price != 0 and Securities[symbol].IsTradable
CanTrade(sec, symbol) == sec[symbol].Price # 0 /\ sec[symbol].IsTradable

Liquidate == [op |-> "Liquidate", symbol |-> "", weight |-> Num(0, 1)]

SetHoldings(symbol, weight) ==
    [op |-> "SetHoldings", symbol |-> symbol, weight |-> weight]

\* for symbol in side: if Price != 0 and IsTradable: SetHoldings(symbol, n/count)
HoldingsCalls(side, sec, n, count) ==
    LET ok == SelectSeq(side, LAMBDA s : CanTrade(sec, s))
    IN [i \in 1..Len(ok) |-> SetHoldings(ok[i], Quotient(n, count))]

\* Mutant: the rebalance does not call Liquidate.
RebalanceCalls_unliquidated(l, s, sec) ==
    HoldingsCalls(l, sec, 1, count_long(l, s))
        \o HoldingsCalls(s, sec, -1, count_short(l, s))

\* The calls of a rebalance, in order.
RebalanceCalls(l, s, sec) ==
    <<Liquidate>> \o HoldingsCalls(l, sec, 1, count_long(l, s))
                  \o HoldingsCalls(s, sec, -1, count_short(l, s))

\* The calls made before the first one whose weight cannot be computed.
RECURSIVE Completed(_)
Completed(calls) ==
    IF calls = <<>> \/ Head(calls).weight.kind # "num" THEN <<>>
    ELSE <<Head(calls)>> \o Completed(Tail(calls))

\* The host's book of target weights after one call: Liquidate closes every
\* position, SetHoldings sets the target weight of one symbol.
Execute(p, call) ==
    IF call.op = "Liquidate" THEN <<>>
    ELSE Put(p, call.symbol, call.weight)

RECURSIVE ExecuteAll(_, _)
ExecuteAll(p, calls) ==
    IF calls = <<>> THEN p
    ELSE ExecuteAll(Execute(p, Head(calls)), Tail(calls))

\* Mutant: the guard is missing, OnData never returns early.
Returns_never(flag) == FALSE

\* Mutant: the guard is inverted, if self.selection_flag: return.
Returns_inverted(flag) == flag

\* if not self.selection_flag: return
Returns(flag) == ~flag

\* Mutant: the list is not cleared.
clear_forgotten(list) == list

\* self.long.clear(), self.short.clear()
clear(list) == <<>>

OnData ==
    /\ error = "none"
    /\ HostIdle
    /\ IF Returns(selection_flag)
       THEN /\ orders' = <<>>
            /\ UNCHANGED <<selection_flag, long, short, portfolio, error,
                           rebalances, fine_ran>>
       ELSE \E sec \in [Range(long) \cup Range(short) -> SecurityStates] :
              LET calls == RebalanceCalls(long, short, sec)
              IN /\ selection_flag' = FALSE
                 /\ rebalances' = rebalances + 1
                 /\ fine_ran' = FALSE
                 /\ orders' = Completed(calls)
                 /\ portfolio' = ExecuteAll(portfolio, Completed(calls))
                 /\ IF Completed(calls) = calls
                    THEN /\ long' = clear(long)
                         /\ short' = clear(short)
                         /\ UNCHANGED error
                    ELSE /\ error' = "ZeroDivisionError"
                         /\ UNCHANGED <<long, short>>
    /\ mad' = <<>>
    /\ last' = "OnData"
    /\ UNCHANGED <<data, coarse_input, coarse_return, fine_input, days, added>>

----------------------------------------------------------------------------
(* Selection: the month-start schedule                                     *)

Selection ==
    /\ error = "none"
    /\ HostIdle
    /\ selection_flag' = TRUE
    /\ rebalances' = 0
    /\ fine_ran' = (selection_flag /\ fine_ran)
    /\ mad' = <<>>
    /\ orders' = <<>>
    /\ last' = "Selection"
    /\ UNCHANGED <<data, long, short, coarse_input, coarse_return, fine_input,
                   portfolio, error, days, added>>

----------------------------------------------------------------------------
(* Initialize and the host's event loop                                    *)

Init ==
    /\ selection_flag = FALSE
    /\ data = <<>>
    /\ long = <<>>
    /\ short = <<>>
    /\ coarse_input = NoCall
    /\ coarse_return = NoReturn
    /\ fine_input = NoCall
    /\ mad = <<>>
    /\ orders = <<>>
    /\ portfolio = <<>>
    /\ last = "none"
    /\ error = "none"
    /\ days = 0
    /\ added = <<>>
    /\ rebalances = 0
    /\ fine_ran = FALSE

Next ==
    \/ Selection
    \/ CoarseUniverse
    \/ CoarseSelectionFunction
    \/ FineUniverse
    \/ FineSelectionFunction
    \/ OnData

Spec == Init /\ [][Next]_vars

----------------------------------------------------------------------------
(* Definitions used to state the properties                                *)

Fixture120 == Repeat(100, 179) \o Repeat(120, 21)

Fixture130 == Repeat(100, 179) \o Repeat(130, 21)

Fixture60 == Repeat(100, 179) \o Repeat(60, 21)

\* The number of prices a symbol's window has received.
Received(s) == IF s \in DOMAIN added THEN Len(added[s]) ELSE 0

\* The n prices most recently added for s (all of them if fewer), oldest first.
LastAdded(s, n) ==
    SubSeq(added[s], Len(added[s]) - Min(n, Len(added[s])) + 1, Len(added[s]))

\* mean(xs) / mean(ys) >= tenths/10, respectively <= tenths/10, for
\* non-negative prices; false when mean(ys) is 0 and the ratio is undefined.
RatioAtLeast(xs, ys, tenths) ==
    \E sx \in {Sum(xs)} : \E sy \in {Sum(ys)} :
        /\ sy > 0
        /\ 10 * sx * Len(ys) >= tenths * Len(xs) * sy

RatioAtMost(xs, ys, tenths) ==
    \E sx \in {Sum(xs)} : \E sy \in {Sum(ys)} :
        /\ sy > 0
        /\ 10 * sx * Len(ys) <= tenths * Len(xs) * sy

Listed(x) == x.ExchangeId \in {"NYS", "NAS", "ASE"}

WindowLength(s) == Len(return_prices(data[s]))

\* A step of OnData that rebalances.
Rebalance == selection_flag /\ ~selection_flag'

IsSetHoldings(call) == call.op = "SetHoldings"

----------------------------------------------------------------------------
(* Properties                                                              *)

\* C1 (as stated): every symbol passed to FineSelectionFunction whose window
\* holds 200 prices is put in long iff mean(21 most recently added prices) /
\* mean(all 200 prices) >= 1.2, in short iff that ratio <= 0.8, and in
\* neither otherwise -- whatever its exchange.
C1_AsStated ==
    [][fine_input.called =>
         \A i \in 1..Len(fine_input.arg) :
            LET s == fine_input.arg[i].Symbol
            IN WindowLength(s) = period =>
                 /\ s \in Range(long') <=>
                      RatioAtLeast(LastAdded(s, 21), LastAdded(s, 200), 12)
                 /\ s \in Range(short') <=>
                      RatioAtMost(LastAdded(s, 21), LastAdded(s, 200), 8)]_vars

\* C1 (amended): every symbol passed to FineSelectionFunction whose window
\* holds 200 prices and whose ExchangeId is NYS, NAS or ASE is put in long
\* iff mean(21 most recently added prices) / mean(all 200 prices) >= 1.2, in
\* short iff that ratio <= 0.8, and in neither otherwise; a symbol with any
\* other ExchangeId is put in neither.  With such an ExchangeId, the
\* insertion sequences [100]*179+[120]*21, [100]*179+[130]*21 and
\* [100]*179+[60]*21 are respectively excluded, classified long and
\* classified short.
C1_Classification ==
    [][fine_input.called =>
         \A i \in 1..Len(fine_input.arg) :
            LET x == fine_input.arg[i]
                s == x.Symbol
                inLong == s \in Range(long')
                inShort == s \in Range(short')
            IN WindowLength(s) = period =>
                 /\ inLong <=>
                      /\ Listed(x)
                      /\ RatioAtLeast(LastAdded(s, 21), LastAdded(s, 200), 12)
                 /\ inShort <=>
                      /\ Listed(x)
                      /\ RatioAtMost(LastAdded(s, 21), LastAdded(s, 200), 8)
                 /\ (Listed(x) /\ added[s] = Fixture120) => ~inLong /\ ~inShort
                 /\ (Listed(x) /\ added[s] = Fixture130) => inLong
                 /\ (Listed(x) /\ added[s] = Fixture60) => inShort]_vars

\* C1 witness: a fine selection has classified the [100]*179+[130]*21
\* symbol long and the [100]*179+[60]*21 symbol short.
C1_Witness ==
    \E s \in Range(long), u \in Range(short) :
        added[s] = Fixture130 /\ added[u] = Fixture60

\* C2: a symbol whose window has received fewer than 200 prices is never in
\* the list CoarseSelectionFunction returned, never in the long set and never
\* in the short set, and no handler has raised.
C2_Excluded ==
    /\ error = "none"
    /\ \A s \in Symbols :
         Received(s) < period =>
            /\ s \notin Range(coarse_return.symbols)
            /\ s \notin Range(long)
            /\ s \notin Range(short)

\* C2 witness: a coarse selection has returned a list while a symbol whose
\* warm-up history was empty is tracked with no price at all.
C2_Witness ==
    /\ coarse_return.kind = "list"
    /\ coarse_return.symbols # <<>>
    /\ \E s \in DOMAIN added : added[s] = <<>>

\* C3: no symbol is in both the long set and the short set.
C3_Disjoint == Range(long) \cap Range(short) = {}

\* C3 witness: both sets hold a symbol.
C3_Witness == long # <<>> /\ short # <<>>

\* The sum of the absolute values of the weights of calls, as a fraction.
RECURSIVE SumAbsWeights(_)
SumAbsWeights(calls) ==
    IF calls = <<>> THEN Num(0, 1)
    ELSE LET w == Head(calls).weight
             rest == SumAbsWeights(Tail(calls))
             a == IF w.num < 0 THEN -w.num ELSE w.num
         IN Num(a * rest.den + rest.num * w.den, w.den * rest.den)

\* The SetHoldings calls among calls for the symbols of side.
CallsFor(calls, side) ==
    SelectSeq(calls, LAMBDA c : IsSetHoldings(c) /\ c.symbol \in Range(side))

IsOne(q) == q.num = q.den

\* C4 (as stated): at every rebalance, for each non-empty side the absolute
\* target weights passed to SetHoldings for that side's symbols sum to 1.
C4_AsStated ==
    [][Rebalance =>
         /\ long # <<>> => IsOne(SumAbsWeights(CallsFor(orders', long)))
         /\ short # <<>> => IsOne(SumAbsWeights(CallsFor(orders', short)))]_vars

\* C5: at every rebalance each SetHoldings call for a symbol of the long set
\* has weight +1/len(long) and each one for a symbol of the short set has
\* weight -1/len(short), the lengths being those at the time of the rebalance.
C5_EqualWeights ==
    [][Rebalance =>
         \A i \in 1..Len(orders') :
            LET c == orders'[i]
            IN IsSetHoldings(c) =>
                 /\ c.weight.kind = "num"
                 /\ c.symbol \in Range(long) \cup Range(short)
                 /\ c.symbol \in Range(long) =>
                      c.weight.num * Len(long) = c.weight.den
                 /\ c.symbol \in Range(short) =>
                      c.weight.num * Len(short) = -c.weight.den]_vars

\* C5 witness: a rebalance has set holdings for two symbols of the long side.
C5_Witness ==
    \E i, j \in 1..Len(orders) :
        /\ i # j
        /\ IsSetHoldings(orders[i]) /\ orders[i].weight.num > 0
        /\ IsSetHoldings(orders[j]) /\ orders[j].weight.num > 0

\* C6: a rebalance with an empty long set makes no SetHoldings call with a
\* positive weight, one with an empty short set makes none with a negative
\* weight, and no rebalance ends in a ZeroDivisionError.
C6_NoDivisionByZero ==
    [][Rebalance =>
         /\ error' = "none"
         /\ long = <<>> =>
              \A i \in 1..Len(orders') :
                 IsSetHoldings(orders'[i]) => orders'[i].weight.num < 0
         /\ short = <<>> =>
              \A i \in 1..Len(orders') :
                 IsSetHoldings(orders'[i]) => orders'[i].weight.num > 0]_vars

\* C6 witness: a rebalance has liquidated and set holdings for both symbols
\* on the short side, so its long side was empty.
C6_Witness ==
    /\ Len(orders) = 3
    /\ \A i \in 2..3 : IsSetHoldings(orders[i]) /\ orders[i].weight.num < 0
    /\ error = "none"

\* C7: every window holds at most 200 prices, and is_ready() is true exactly
\* when it holds 200, which is exactly when at least 200 prices were added.
C7_WindowBound ==
    \A s \in DOMAIN data :
        /\ WindowLength(s) <= 200
        /\ is_ready(data[s]) <=> WindowLength(s) = 200
        /\ is_ready(data[s]) <=> Received(s) >= 200

\* C7 witness: a full window has received one more price.
C7_Witness == \E s \in DOMAIN data : Received(s) = 201 /\ is_ready(data[s])

\* C8: return_prices() is the last min(k, 200) of the k prices added, newest
\* first, so prices[:21] is the 21 most recently added prices, newest first.
C8_NewestFirst ==
    \A s \in DOMAIN data :
        /\ return_prices(data[s]) = Reverse(LastAdded(s, 200))
        /\ Slice(return_prices(data[s]), 21) = Reverse(LastAdded(s, 21))

\* C8 witness: a window has evicted its oldest price and holds prices that
\* differ, so the order shows.
C8_Witness ==
    \E s \in DOMAIN data :
        /\ Received(s) > 200
        /\ return_prices(data[s])[1] # return_prices(data[s])[2]
        /\ return_prices(data[s])[2] # return_prices(data[s])[200]

\* C9: a rebalance leaves the long and the short set empty, and empty sets
\* stay empty in every step other than a FineSelectionFunction call.
C9_Cleared ==
    [][/\ Rebalance => long' = <<>> /\ short' = <<>>
       /\ (long = <<>> /\ short = <<>> /\ ~fine_input.called) =>
             long' = <<>> /\ short' = <<>>]_vars

\* C9 witness: a rebalance has set holdings and the sets are empty.
C9_Witness ==
    /\ Len(orders) >= 2
    /\ long = <<>>
    /\ short = <<>>

\* C10: at most one OnData call has rebalanced since the last Selection
\* trigger (none before the first trigger).
C10_OncePerPeriod == rebalances <= 1

\* C10 witness: the period's rebalance is done and a later handler call has
\* found the flag reset.
C10_Witness == rebalances = 1 /\ orders = <<>> /\ ~selection_flag


----------------------------------------------------------------------------
(* C11: division by a zero long average                                    *)

\* The window of symbol s is ready and its 200 prices sum to zero.
ZeroLongAverage(s) ==
    /\ s \in DOMAIN data
    /\ is_ready(data[s])
    /\ Sum(return_prices(data[s])) = 0

\* The MAD dict holds for symbol s the result of a division by zero.
DividedByZero(items, s) ==
    \E j \in 1..Len(items) :
        items[j].symbol = s /\ items[j].mad.kind \in {"nan", "inf"}

\* C11: FineSelectionFunction divides ma21 by ma200 with no guard: every
\* symbol of its argument that passes the exchange filter and whose ready
\* window sums to zero is not skipped, it reaches the division and gets the
\* result of a division by zero as its MAD entry.
C11_Unguarded ==
    [][fine_input.called =>
         \A i \in 1..Len(fine_input.arg) :
            (OnListedExchange(fine_input.arg[i])
                /\ ZeroLongAverage(fine_input.arg[i].Symbol))
            => DividedByZero(mad', fine_input.arg[i].Symbol)]_vars

\* The fine stage has just run on a ready symbol whose prices sum to zero.
C11_Witness ==
    /\ last = "FineSelectionFunction"
    /\ error = "none"
    /\ \E s \in Symbols : ZeroLongAverage(s) /\ DividedByZero(mad, s)


----------------------------------------------------------------------------
(* C12: OnData without the flag                                            *)

\* The step is a call of OnData: the host was idle, it set up no call, and
\* the handler called last is OnData.
OnDataStep == HostIdle /\ HostIdle' /\ last' = "OnData"

\* C12: an OnData call made while selection_flag is false makes no
\* Liquidate and no SetHoldings call and leaves selection_flag, the long
\* and short lists and every rolling window as they were.
C12_NoOp ==
    [][(OnDataStep /\ ~selection_flag) =>
           /\ orders' = <<>>
           /\ UNCHANGED <<selection_flag, long, short, data>>]_vars

\* OnData has just returned early (a rebalance always calls Liquidate)
\* while windows were being tracked.
C12_Witness ==
    /\ last = "OnData"
    /\ error = "none"
    /\ ~selection_flag
    /\ orders = <<>>
    /\ \E s \in DOMAIN data : is_ready(data[s])


----------------------------------------------------------------------------
(* C13: the daily update of the coarse stage                               *)

\* The symbols of a coarse universe.
CoarseSymbols(coarse) == {coarse[i].Symbol : i \in 1..Len(coarse)}

\* The record of symbol s in a coarse universe that lists it.
CoarseRecord(coarse, s) ==
    coarse[CHOOSE i \in 1..Len(coarse) : coarse[i].Symbol = s]

\* Window w2 is window w1 after one more price: the price in front, the
\* oldest one dropped from a full window, one more sample counted.
Appended(w1, price, w2) ==
    /\ w2.Samples = w1.Samples + 1
    /\ w2.Items = Slice(<<price>> \o w1.Items, w1.Size)
    /\ w2.Size = w1.Size

\* C13: every CoarseSelectionFunction call appends the day's adjusted price
\* to the window of each symbol of its argument that is already tracked;
\* a call made while selection_flag is false returns Universe.Unchanged,
\* tracks no new symbol, leaves the window of every symbol absent from its
\* argument as it was and leaves selection_flag, long and short unchanged.
C13_DailyUpdate ==
    [][coarse_input.called =>
         LET coarse == coarse_input.arg
         IN /\ \A s \in DOMAIN data \cap CoarseSymbols(coarse) :
                  /\ s \in DOMAIN data'
                  /\ Appended(data[s].Prices,
                              CoarseRecord(coarse, s).AdjustedPrice,
                              data'[s].Prices)
            /\ ~selection_flag =>
                  /\ coarse_return' = Unchanged
                  /\ DOMAIN data' = DOMAIN data
                  /\ \A s \in DOMAIN data \ CoarseSymbols(coarse) :
                        data'[s] = data[s]
                  /\ UNCHANGED <<selection_flag, long, short>>]_vars

\* An unflagged coarse call has just updated a window that was warmed up
\* before (201 prices received) while another tracked symbol, absent that
\* day, still holds what its history gave it.
C13_Witness ==
    /\ last = "CoarseSelectionFunction"
    /\ ~selection_flag
    /\ coarse_return = Unchanged
    /\ \E s \in DOMAIN data : Received(s) = period + 1
    /\ \E s \in DOMAIN data : Received(s) = period


----------------------------------------------------------------------------
(* C14: the list returned by the coarse stage, on a universe with more     *)
(* candidates than coarse_count                                            *)

\* The number of symbols of the large universe beyond coarse_count.
Surplus == 2

LargeSymbols == 1..(coarse_count + Surplus)

\* How dollar volume runs over the large universe: rising or falling with
\* the symbol, in three tied blocks, or the same for all.
Patterns == {"rising", "falling", "tied", "equal"}

LargeDollarVolume(pattern, s) ==
    CASE pattern = "rising"  -> 1000 + s
      [] pattern = "falling" -> 2000 - s
      [] pattern = "tied"    -> 1000 + (s % 3)
      [] pattern = "equal"   -> 1000

\* The places of the one record that fails the universe filter and of the
\* one window that is not ready; 0 stands for none.
Places == {0, 1, coarse_count, coarse_count + 1, coarse_count + Surplus}

\* The record that fails the filter fails another conjunct at each place.
LargeListing(s, failing) ==
    IF s # failing
    THEN [HasFundamentalData |-> TRUE, Market |-> "usa", Price |-> 6]
    ELSE IF s = 1
    THEN [HasFundamentalData |-> FALSE, Market |-> "usa", Price |-> 6]
    ELSE IF s = coarse_count
    THEN [HasFundamentalData |-> TRUE, Market |-> "fxcm", Price |-> 6]
    ELSE [HasFundamentalData |-> TRUE, Market |-> "usa", Price |-> 5]

LargeCoarse(pattern, failing) ==
    [s \in LargeSymbols |->
        [Symbol |-> s,
         AdjustedPrice |-> 150,
         HasFundamentalData |-> LargeListing(s, failing).HasFundamentalData,
         Market |-> LargeListing(s, failing).Market,
         Price |-> LargeListing(s, failing).Price,
         DollarVolume |-> LargeDollarVolume(pattern, s)]]

\* A window that is ready, and one that is still not ready after the day's
\* update.
ReadyPrices ==
    UpdateEach(SymbolData(0, period), Repeat(100, period), 1, period).Prices

UnreadyPrices ==
    UpdateEach(SymbolData(0, period), Repeat(100, period - 2), 1, period - 2).Prices

\* Every symbol of the large universe is tracked since an earlier period.
LargeData(unready) ==
    [s \in LargeSymbols |->
        [Symbol |-> s,
         Prices |-> IF s = unready THEN UnreadyPrices ELSE ReadyPrices]]

LargeAdded(unready) ==
    [s \in LargeSymbols |->
        IF s = unready THEN Repeat(100, period - 2) ELSE Repeat(100, period)]

\* The algorithm after Selection, about to run the coarse stage on a large
\* universe.
InitLarge ==
    \E pattern \in Patterns : \E failing \in Places : \E unready \in Places :
        /\ selection_flag = TRUE
        /\ data = LargeData(unready)
        /\ long = <<>>
        /\ short = <<>>
        /\ coarse_input = Call(LargeCoarse(pattern, failing))
        /\ coarse_return = NoReturn
        /\ fine_input = NoCall
        /\ mad = <<>>
        /\ orders = <<>>
        /\ portfolio = <<>>
        /\ last = "Selection"
        /\ error = "none"
        /\ days = 1
        /\ added = LargeAdded(unready)
        /\ rebalances = 0
        /\ fine_ran = FALSE

NextLarge == CoarseSelectionFunction

SpecLarge == InitLarge /\ [][NextLarge]_vars

\* Symbol s has a record in the coarse universe that passes the filter, and
\* its window is ready in d.
Candidate(coarse, d, s) ==
    /\ s \in CoarseSymbols(coarse)
    /\ PassesFilter(CoarseRecord(coarse, s))
    /\ s \in DOMAIN d
    /\ is_ready(d[s])

\* C14: with selection_flag set, the list CoarseSelectionFunction returns
\* has at most 500 symbols and no duplicates, holds only symbols whose
\* record has fundamental data, market 'usa' and price > 5 and whose
\* window is ready, is in order of non-increasing dollar volume, and omits
\* a ready candidate only when it is full and the candidate's dollar
\* volume is at most that of every returned symbol.
C14_Returned ==
    [][(coarse_input.called /\ selection_flag) =>
         LET coarse == coarse_input.arg
             ret == coarse_return'.symbols
         IN /\ coarse_return'.kind = "list"
            /\ Len(ret) <= coarse_count
            /\ Cardinality(Range(ret)) = Len(ret)
            /\ \A i \in 1..Len(ret) : Candidate(coarse, data', ret[i])
            /\ \A i \in 1..(Len(ret) - 1) :
                  CoarseRecord(coarse, ret[i]).DollarVolume
                      >= CoarseRecord(coarse, ret[i + 1]).DollarVolume
            /\ \A s \in CoarseSymbols(coarse) \ Range(ret) :
                  Candidate(coarse, data', s) =>
                      /\ Len(ret) = coarse_count
                      /\ \A i \in 1..Len(ret) :
                            CoarseRecord(coarse, ret[i]).DollarVolume
                                >= CoarseRecord(coarse, s).DollarVolume]_vars

\* The coarse stage has just returned a full list although more than
\* coarse_count + 1 tracked windows are ready: with at most one record
\* failing the filter, a ready candidate was cut off.
C14_Witness ==
    /\ last = "CoarseSelectionFunction"
    /\ coarse_return.kind = "list"
    /\ Len(coarse_return.symbols) = coarse_count
    /\ Cardinality({s \in DOMAIN data : is_ready(data[s])}) > coarse_count + 1


----------------------------------------------------------------------------
(* C15: the portfolio after a rebalance                                    *)

Positive(x) == x.kind = "num" /\ x.num * x.den > 0

Negative(x) == x.kind = "num" /\ x.num * x.den < 0

\* C15: right after a rebalance every position of the portfolio is in a
\* symbol of the long or short list that rebalance used (what was held
\* before is liquidated), with a positive target weight for a symbol of
\* the long list and a negative one for a symbol of the short list.
C15_OnlySelected ==
    [][Rebalance =>
         \A s \in DOMAIN portfolio' :
            /\ s \in Range(long) \cup Range(short)
            /\ s \in Range(long) => Positive(portfolio'[s])
            /\ s \in Range(short) => Negative(portfolio'[s])]_vars

\* A rebalance of the second day has just left a long and a short
\* position.
C15_Witness ==
    /\ last = "OnData"
    /\ error = "none"
    /\ days = 2
    /\ Len(orders) = 3
    /\ \E s \in DOMAIN portfolio : Positive(portfolio[s])
    /\ \E s \in DOMAIN portfolio : Negative(portfolio[s])


----------------------------------------------------------------------------
(* C16: the order of the trigger, the selection and the rebalance          *)

\* C16 as stated: whatever the order of the host's events, a rebalance
\* finds long and short lists that a FineSelectionFunction run produced
\* after the Selection trigger whose flag it consumes.
C16_AsStated == [][Rebalance => fine_ran]_vars

----------------------------------------------------------------------------
(* C17: a symbol's window is created and warmed up once                    *)

\* C17: a symbol in self.data stays in it; no step shortens its window,
\* makes a ready window unready, or passes more than one further price to
\* its update (it is not created or warmed up again).
C17_CreatedOnce ==
    [][\A s \in DOMAIN data :
          /\ s \in DOMAIN data'
          /\ Len(return_prices(data'[s])) >= Len(return_prices(data[s]))
          /\ is_ready(data[s]) => is_ready(data'[s])
          /\ \/ added'[s] = added[s]
             \/ \E price \in AdjustedPrices :
                   added'[s] = Append(added[s], price)]_vars

\* A symbol that was warmed up on the first day has been selected again by
\* the flagged coarse call of the second day: it is returned, and it has
\* received its history and one price more.
C17_Witness ==
    /\ last = "CoarseSelectionFunction"
    /\ days = 2
    /\ coarse_return.kind = "list"
    /\ \E s \in Range(coarse_return.symbols) : Received(s) = period + 1

====
